---- MODULE Spec2Model ----
(***************************************************************************)
(* Batch dispatch and recovery engine of zigchainMultisend.                *)
(*                                                                         *)
(* BatchProcessor.processBatches (src/src/batch-processor.ts) and          *)
(* FailedBatchRetrier.retryBatch / retryAllBatches                         *)
(* (src/src/retry-failed-batches.ts) drive MultiSendService.executeMultiSend*)
(* (src/src/multisend.ts) and record the outcomes in two files:            *)
(* transaction-hashes.txt (settlement log) and failed-batches.json         *)
(* (failure store).  One process runs at a time; the files survive it.     *)
(***************************************************************************)
EXTENDS Integers, Sequences, FiniteSets, TLC

(***************************************************************************)
(* Bounds of the model.                                                    *)
(***************************************************************************)
MaxLen == 2          \* recipients handed to processBatches, in one run and over all runs
MaxRetriesArg == 1   \* largest --max-retries
MaxDisturbances == 1 \* process kills and file system errors in one behaviour
MaxBalance == 2      \* largest sender balance the chain reports
MaxSplitLen == 4     \* longest recipient list splitIntoBatches is tried on alone
MaxArgs == 2         \* words on the command line
MaxTxLen == 3        \* longest recipient list createMultiSendTx is tried on alone

(***************************************************************************)
(* Values.                                                                 *)
(***************************************************************************)
NoHash == <<>>
NoError == "none"
NoBatch == [batchNumber |-> 0, recipients |-> <<>>, error |-> NoError]

\* Recipient (types.ts): address and amount, both strings.
\* The rows of recipients.csv the model draws from: pairwise different, so
\* that a lost, repeated or displaced recipient shows.
Addresses == <<"zig1a", "zig1b", "zig1c", "zig1d", "zig1e", "zig1f">>
RecipientAt(k) == [address |-> Addresses[k], amount |-> IF k % 2 = 1 THEN "1" ELSE "2"]
\* The lists handed in are runs of consecutive rows, so that two runs can
\* be on different recipients.
RecipientLists ==
    UNION { { [k \in 1..n |-> RecipientAt(from + k)] : n \in 0..(MaxLen - from) } :
            from \in 0..MaxLen }
BatchSizes == 1..MaxLen
RetryArgs == 0..MaxRetriesArg
BatchNumbers == 1..MaxLen
Balances == 0..MaxBalance

Min(a, b) == IF a < b THEN a ELSE b

\* BigInt(recipient.amount): the decimal string parsed to an integer.
BigInt(s) == CASE s = "1" -> 1 [] s = "2" -> 2 [] s = "0" -> 0 [] s = "9" -> 9 [] s = "01" -> 1

\* BigInt(s) returns: on any other string it throws a SyntaxError.
Parses(s) == s \in {"0", "1", "2", "9", "01"}

Digit(d) ==
    CASE d = 0 -> "0" [] d = 1 -> "1" [] d = 2 -> "2" [] d = 3 -> "3" [] d = 4 -> "4"
      [] d = 5 -> "5" [] d = 6 -> "6" [] d = 7 -> "7" [] d = 8 -> "8" [] d = 9 -> "9"

\* bigint.toString(): the decimal digits of a value that is not negative.
RECURSIVE BigIntToString(_)
BigIntToString(n) == IF n < 10 THEN Digit(n) ELSE BigIntToString(n \div 10) \o Digit(n % 10)

\* Array.prototype.slice(from, to) on a 0-based array.
Slice(s, from, to) == SubSeq(s, from + 1, Min(to, Len(s)))

RECURSIVE TotalAmount(_)
TotalAmount(rs) ==
    IF rs = <<>> THEN 0 ELSE BigInt(Head(rs).amount) + TotalAmount(Tail(rs))

RECURSIVE Concat(_)
Concat(ss) == IF ss = <<>> THEN <<>> ELSE Head(ss) \o Concat(Tail(ss))

(***************************************************************************)
(* Pure parts of the code.                                                 *)
(***************************************************************************)

\* BatchProcessor.splitIntoBatches: for (i = 0; i < length; i += batchSize)
\* batches.push(recipients.slice(i, i + batchSize)).
RECURSIVE SplitShortFrom(_, _, _)
SplitShortFrom(rs, bs, from) ==
    IF from < Len(rs)
    THEN <<Slice(rs, from, from + bs - 1)>> \o SplitShortFrom(rs, bs, from + bs)
    ELSE <<>>

\* The split with slice(i, i + batchSize - 1): every batch one short.
SplitIntoBatchesShort(rs, bs) == SplitShortFrom(rs, bs, 0)

RECURSIVE SplitFrom(_, _, _)
SplitFrom(rs, bs, from) ==
    IF from < Len(rs)
    THEN <<Slice(rs, from, from + bs)>> \o SplitFrom(rs, bs, from + bs)
    ELSE <<>>

SplitIntoBatches(rs, bs) == SplitFrom(rs, bs, 0)

\* What the network does to one executeMultiSend call: the balance the chain
\* reports and whether signAndBroadcast returns or throws.
Environments == [balance : Balances, bcast : {"ok", "fail"}]

\* MultiSendService.executeMultiSend: read the balance, compare it
\* with the BigInt sum of the amounts, broadcast.  hash is the transaction
\* hash or NoHash when the call throws; submitted tells whether
\* sendMultiSendTx was invoked.
\* The transaction hash the chain returns for a transfer to rs.
TxHash(rs) == <<"tx", rs>>

\* executeMultiSend without the comparison of line 70.
ExecuteMultiSendUnchecked(rs, env) ==
    IF env.bcast = "fail"
    THEN [hash |-> NoHash, error |-> "broadcast failed", submitted |-> TRUE]
    ELSE [hash |-> TxHash(rs), error |-> NoError, submitted |-> TRUE]

ExecuteMultiSend(rs, env) ==
    IF env.balance < TotalAmount(rs)
    THEN [hash |-> NoHash, error |-> "Insufficient balance", submitted |-> FALSE]
    ELSE IF env.bcast = "fail"
    THEN [hash |-> NoHash, error |-> "broadcast failed", submitted |-> TRUE]
    ELSE [hash |-> TxHash(rs), error |-> NoError, submitted |-> TRUE]

\* walletService.getAddress() and networkConfig.denom.
SenderAddress == "zig1sender"
Denom == "uzig"

\* No MultiSendTx, and createMultiSendTx leaving by a throw.
NoTx == [threw |-> FALSE, inputs |-> <<>>, outputs |-> <<>>]
TxThrows == [threw |-> TRUE, inputs |-> <<>>, outputs |-> <<>>]

Coin(denom, amount) == [denom |-> denom, amount |-> amount]

\* createMultiSendTx taking the amount of the first recipient as the total.
CreateMultiSendTxFirstOnly(rs, sender, denom) ==
    IF \E k \in 1..Len(rs) : ~Parses(rs[k].amount) THEN TxThrows
    ELSE [threw |-> FALSE,
          inputs |-> << [address |-> sender,
                         coins |-> <<Coin(denom, BigIntToString(IF rs = <<>> THEN 0
                                                                ELSE BigInt(rs[1].amount)))>>] >>,
          outputs |-> [k \in 1..Len(rs) |->
                          [address |-> rs[k].address, coins |-> <<Coin(denom, rs[k].amount)>>]]]

\* MultiSendService.createMultiSendTx: the reduce over BigInt(recipient.amount)
\* (it throws on an amount BigInt rejects), one input from the sender with
\* totalAmount.toString(), and recipients.map to the outputs.
CreateMultiSendTx(rs, sender, denom) ==
    IF \E k \in 1..Len(rs) : ~Parses(rs[k].amount) THEN TxThrows
    ELSE [threw |-> FALSE,
          inputs |-> << [address |-> sender,
                         coins |-> <<Coin(denom, BigIntToString(TotalAmount(rs)))>>] >>,
          outputs |-> [k \in 1..Len(rs) |->
                          [address |-> rs[k].address, coins |-> <<Coin(denom, rs[k].amount)>>]]]

\* The loop of processBatches with retryCount < this.maxRetries.
RunLoopStopsEarly(rc, mr, h) == rc < mr /\ h = NoHash

\* processBatches: while (retryCount <= this.maxRetries && !hash)
RunLoopContinues(rc, mr, h) == rc <= mr /\ h = NoHash

\* retryBatch with the loop condition of processBatches.
RetryLoopInclusive(rc, mr, ok) == rc <= mr /\ ~ok

\* retryBatch: while (retryCount < maxRetries && !success)
RetryLoopContinues(rc, mr, ok) == rc < mr /\ ~ok

\* A line of transaction-hashes.txt (the timestamp is left out).
HashEntry(n, h, count, isRetry) ==
    [kind |-> "hash", batchNumber |-> n, recipientCount |-> count,
     hash |-> h, error |-> NoError, retry |-> isRetry]

ErrorEntry(n, count, msg) ==
    [kind |-> "error", batchNumber |-> n, recipientCount |-> count,
     hash |-> NoHash, error |-> msg, retry |-> FALSE]

\* The line of processBatches with the mark of the retrier.
RunHashEntryMarked(n, h, count) == HashEntry(n, h, count, TRUE)

\* BatchProcessor.saveTransactionHash: the appended line carries no retry mark.
RunHashEntry(n, h, count) == HashEntry(n, h, count, FALSE)

\* FailedBatchRetrier.saveTransactionHash: the appended line ends in (RETRY).
RetryHashEntry(n, h, count) == HashEntry(n, h, count, TRUE)

\* failed-batches.json: missing, unparsable, or a JSON array of records.
NoFile == [state |-> "missing", records |-> <<>>]
JsonFile(records) == [state |-> "ok", records |-> records]
TornFile == [state |-> "corrupt", records |-> <<>>]

\* The record with the loop index i in place of batchNumber.
FailedBatchZeroBased(n, rs, msg) == [batchNumber |-> n - 1, recipients |-> rs, error |-> msg]

\* The object saveFailedBatch builds (the timestamp is left out).
FailedBatch(n, rs, msg) == [batchNumber |-> n, recipients |-> rs, error |-> msg]

\* What a read of failed-batches.json yields: the array, or nothing when the
\* file is missing, when readFileSync throws (rd = "fail") or when JSON.parse
\* throws.
Readable(file, rd) == file.state = "ok" /\ rd = "ok"
ReadRecords(file, rd) == IF Readable(file, rd) THEN file.records ELSE <<>>

\* saveFailedBatch: failedBatches.push(failedBatch) on what was read.
PushFailedBatch(records, n, rs, msg) == Append(records, FailedBatch(n, rs, msg))

\* find giving the first record whatever its number.
FindBatchAny(records, n) == IF records = <<>> THEN NoBatch ELSE Head(records)

\* retryBatch: failedBatches.find(batch => batch.batchNumber === batchNumber)
RECURSIVE FindBatch(_, _)
FindBatch(records, n) ==
    IF records = <<>> THEN NoBatch
    ELSE IF Head(records).batchNumber = n THEN Head(records)
    ELSE FindBatch(Tail(records), n)

\* removeFromFailedBatches: failedBatches.filter(batch => batch.batchNumber !== batchNumber)
RECURSIVE FilterBatches(_, _)
FilterBatches(records, n) ==
    IF records = <<>> THEN <<>>
    ELSE IF Head(records).batchNumber # n
    THEN <<Head(records)>> \o FilterBatches(Tail(records), n)
    ELSE FilterBatches(Tail(records), n)

(***************************************************************************)
(* State.                                                                  *)
(***************************************************************************)
VARIABLES
    hashesFile,     \* transaction-hashes.txt: the lines after the header
    failedFile,     \* failed-batches.json
    op,             \* the running entry point: "none", "run", "retry", "retryAll"
    pc,             \* where the process stands
    recipients,     \* processBatches: the recipients argument
    batchSize,      \* BatchProcessor.batchSize
    maxRetries,     \* BatchProcessor.maxRetries, or the maxRetries argument of retryBatch
    batches,        \* processBatches: const batches
    i,              \* processBatches: loop index (0-based)
    hashes,         \* processBatches: const hashes
    hash,           \* hash returned by executeMultiSend, NoHash for null
    retryCount,     \* let retryCount
    lastError,      \* processBatches: let lastError
    caught,         \* processBatches: the error bound by catch (error) at line 176
    batchNumber,    \* const batchNumber (run) or the batchNumber argument (retryBatch)
    batchToRetry,   \* retryBatch: const batchToRetry
    success,        \* retryBatch: let success
    pending,        \* retryAllBatches: const failedBatches
    idx,            \* retryAllBatches: position of the for-of loop in pending (1-based)
    successCount,   \* retryAllBatches: let successCount
    failedCount,    \* retryAllBatches: let failedCount
    ret,            \* how the entry point ended: "none", "hashes", "true", "false", "counts", "fatal"
    console,        \* kinds of warnings and errors printed by the running entry point
    attempts,       \* history: executeMultiSend calls made for the batch in hand
    returned,       \* history: hashes executeMultiSend returned for the batch in hand
    sentTo,         \* history: the recipients handed to the latest of these calls
    submitted,      \* history: the latest of these calls in processBatches invoked sendMultiSendTx
    thrown,         \* history: the error the latest of these calls threw in processBatches
    fresh,          \* history: failed-batches.json held no record when the last run started
    accepted,       \* history: hashes returned per batch number since the last run started
    prev,           \* history: the retryBatch that returned true last, with nothing since
    atEntry,        \* history: the two files as the retryBatch call in hand found them
    handed,         \* recipients handed to processBatches so far
    faults,         \* process kills and file system errors so far
    argv,           \* main: process.argv.slice(2)
    identity,       \* config: walletConfig.mnemonic or walletConfig.privateKey is set
    csvFile,        \* recipients.csv: missing, or its valid rows
    netCalls,       \* history: network calls main has made itself (lines 66-72)
    sleeps,         \* the this.sleep(ms) suspensions of the last step, in order
    inFlight,       \* executeMultiSend calls that have not settled yet
    calls,          \* history: executeMultiSend calls made by the running entry point
    tx              \* createMultiSendTx alone: what it returned

files == <<hashesFile, failedFile>>
runLocals == <<recipients, batchSize, batches, i, hashes, lastError, caught>>
loopLocals == <<maxRetries, hash, retryCount, batchNumber>>
retryLocals == <<batchToRetry, success, atEntry>>
allLocals == <<pending, idx, successCount, failedCount>>
inHand == <<attempts, returned, sentTo, submitted, thrown>>
history == <<accepted, prev, fresh>>
budget == <<handed, faults>>
cli == <<argv, identity, csvFile, netCalls>>
pace == <<sleeps, inFlight, calls>>
vars == <<files, op, pc, runLocals, loopLocals, retryLocals, allLocals,
          ret, console, inHand, history, budget, cli, pace, tx>>

\* No retryBatch call in hand.
NoSnapshot == [hashesFile |-> <<>>, failedFile |-> [state |-> "missing", records |-> <<>>]]

\* The files as a call finds them.
Snapshot == [hashesFile |-> hashesFile, failedFile |-> failedFile]

NoPrev == [op |-> "none", batchNumber |-> 0, ret |-> "none"]
NoneAccepted == [n \in BatchNumbers |-> 0]

\* File system calls that may still throw.
CanFault(k) == faults + k <= MaxDisturbances
WriteOutcomes == IF CanFault(1) THEN {"ok", "fail"} ELSE {"ok"}
ReadOutcomes(file) == IF CanFault(1) /\ file.state = "ok" THEN {"ok", "fail"} ELSE {"ok"}
Cost(rd, wr) == (IF rd = "fail" THEN 1 ELSE 0) + (IF wr = "fail" THEN 1 ELSE 0)

\* A fresh working directory, neither file exists, and no process.
Quiet ==
    /\ hashesFile = <<>>
    /\ failedFile = NoFile
    /\ op = "none"
    /\ pc = "idle"
    /\ maxRetries = 0
    /\ batches = <<>>
    /\ i = 0
    /\ hashes = <<>>
    /\ hash = NoHash
    /\ retryCount = 0
    /\ lastError = NoError
    /\ caught = NoError
    /\ batchNumber = 0
    /\ batchToRetry = NoBatch
    /\ success = FALSE
    /\ atEntry = NoSnapshot
    /\ pending = <<>>
    /\ idx = 0
    /\ successCount = 0
    /\ failedCount = 0
    /\ ret = "none"
    /\ console = {}
    /\ attempts = 0
    /\ submitted = FALSE
    /\ returned = 0
    /\ sentTo = <<>>
    /\ thrown = NoError
    /\ fresh = TRUE
    /\ accepted = NoneAccepted
    /\ prev = NoPrev
    /\ handed = 0
    /\ faults = 0
    /\ sleeps = <<>>
    /\ inFlight = 0
    /\ calls = 0
    /\ tx = NoTx

\* main is not followed: the entry points are called with arguments of any
\* value, as if main had parsed them.
NoCommand ==
    /\ argv = <<>>
    /\ identity = TRUE
    /\ csvFile = [exists |-> FALSE, rows |-> <<>>]
    /\ netCalls = {}

Init ==
    /\ recipients = <<>>
    /\ batchSize = 1
    /\ Quiet
    /\ NoCommand

\* Nothing has been done yet for the batch in hand.
ResetInHand ==
    /\ attempts' = 0
    /\ submitted' = FALSE
    /\ returned' = 0
    /\ sentTo' = <<>>
    /\ thrown' = NoError

\* A step that neither suspends in this.sleep nor touches executeMultiSend.
NoPause ==
    /\ sleeps' = <<>>
    /\ UNCHANGED <<inFlight, calls>>

\* A step ending in await this.sleep(ms) when due holds.
Sleep(due, ms) ==
    /\ sleeps' = IF due THEN <<ms>> ELSE <<>>
    /\ UNCHANGED <<inFlight, calls>>

\* The memory of a process that is gone.
ClearLocals ==
    /\ recipients' = <<>>
    /\ batchSize' = 1
    /\ maxRetries' = 0
    /\ batches' = <<>>
    /\ i' = 0
    /\ hashes' = <<>>
    /\ hash' = NoHash
    /\ retryCount' = 0
    /\ lastError' = NoError
    /\ caught' = NoError
    /\ batchNumber' = 0
    /\ batchToRetry' = NoBatch
    /\ success' = FALSE
    /\ atEntry' = NoSnapshot
    /\ pending' = <<>>
    /\ idx' = 0
    /\ successCount' = 0
    /\ failedCount' = 0
    /\ ret' = "none"
    /\ console' = {}
    /\ ResetInHand
    /\ sleeps' = <<>>
    /\ inFlight' = 0
    /\ calls' = 0

(***************************************************************************)
(* BatchProcessor: new BatchProcessor(...) followed by processBatches.     *)
(***************************************************************************)

\* Where processBatches stands once the while condition of line 138 has been
\* evaluated: the next executeMultiSend, the throw of line 157 landing in the
\* catch of line 176, or the success path of lines 160-168.
RunPc(rc, mr, h) ==
    IF RunLoopContinues(rc, mr, h) THEN "execute"
    ELSE IF h = NoHash THEN "logError" ELSE "saveHash"

\* throw lastError || new Error('All retry attempts failed')
Thrown(err) == IF err # NoError THEN err ELSE "All retry attempts failed"

\* The for loop of line 101 moves on to batch number n + 1, or processBatches
\* returns hashes.
NextBatch ==
    IF i + 1 < Len(batches)
    THEN /\ i' = i + 1
         /\ batchNumber' = i + 2
         /\ hash' = NoHash
         /\ retryCount' = 0
         /\ lastError' = NoError
         /\ caught' = IF RunPc(0, maxRetries, NoHash) = "logError" THEN Thrown(NoError) ELSE NoError
         /\ pc' = RunPc(0, maxRetries, NoHash)
         /\ ResetInHand
         /\ ret' = ret
    ELSE /\ pc' = "done"
         /\ ret' = "hashes"
         /\ UNCHANGED <<i, batchNumber, hash, retryCount, lastError, caught, inHand>>

\* The catch block ending the run: processBatches returns after a failed batch.
AfterFailureReturns ==
    /\ pc' = "done"
    /\ ret' = "hashes"
    /\ UNCHANGED <<i, batchNumber, hash, retryCount, lastError, caught, inHand>>

\* The end of the catch block of lines 176-192: the for loop goes on.
AfterFailure == NextBatch

\* The process dies of an error that reaches main's catch: process.exit(1).
Fatal ==
    /\ pc' = "done"
    /\ ret' = "fatal"

\* The constructor rewrites transaction-hashes.txt to its header; processBatches
\* splits the recipients and enters the first batch.
StartRun(rs, bs, mr) ==
    /\ pc = "idle"
    /\ handed + Len(rs) <= MaxLen
    /\ handed' = handed + Len(rs)
    /\ op' = "run"
    /\ prev' = NoPrev
    /\ console' = {}
    /\ ResetInHand
    /\ accepted' = NoneAccepted
    /\ fresh' = (failedFile.state # "corrupt" /\ failedFile.records = <<>>)
    /\ UNCHANGED <<failedFile, retryLocals, allLocals>>
    /\ \E wr \in WriteOutcomes :
         /\ faults' = faults + Cost("ok", wr)
         /\ IF wr = "fail"
            THEN /\ Fatal
                 /\ UNCHANGED <<hashesFile, runLocals, loopLocals>>
            ELSE /\ hashesFile' = <<>>
                 /\ recipients' = rs
                 /\ batchSize' = bs
                 /\ maxRetries' = mr
                 /\ batches' = SplitIntoBatches(rs, bs)
                 /\ hashes' = <<>>
                 /\ i' = 0
                 /\ hash' = NoHash
                 /\ retryCount' = 0
                 /\ lastError' = NoError
                 /\ IF SplitIntoBatches(rs, bs) = <<>>
                    THEN /\ pc' = "done"
                         /\ ret' = "hashes"
                         /\ batchNumber' = 0
                         /\ caught' = NoError
                    ELSE /\ pc' = RunPc(0, mr, NoHash)
                         /\ ret' = "none"
                         /\ batchNumber' = 1
                         /\ caught' = IF RunPc(0, mr, NoHash) = "logError"
                                      THEN Thrown(NoError) ELSE NoError
    /\ NoPause
    /\ UNCHANGED <<cli, tx>>

\* A retryDelay suspension before every pass of the loop.
RetryDelayAlways(rc) == rc >= 0

\* if (retryCount > 0) at line 139: the pass starts with
\* await this.sleep(this.retryDelayMs).
RetryDelayDue(rc) == rc > 0

\* A call whose result is not awaited stays pending.
NotAwaited(n) == n

\* await: the flow resumes once the call has settled, with a hash or a throw.
Awaited(n) == n - 1

\* The start of a pass of the while loop of lines 138-147: the retry delay
\* when it is due, then the call of executeMultiSend, on which the flow
\* suspends.
Submit ==
    /\ op = "run"
    /\ pc = "execute"
    /\ pc' = "await"
    /\ sleeps' = IF RetryDelayDue(retryCount) THEN <<"retryDelayMs">> ELSE <<>>
    /\ inFlight' = inFlight + 1
    /\ calls' = calls + 1
    /\ UNCHANGED <<files, op, runLocals, loopLocals, retryLocals, allLocals,
                   ret, console, inHand, history, budget>>
    /\ UNCHANGED <<cli, tx>>

\* The rest of the pass (lines 147-154): executeMultiSend settles, then
\* hash = result, or lastError = err and retryCount++; when the loop ends
\* with a hash, hashes.push(hash) (line 161).
Execute ==
    /\ op = "run"
    /\ pc = "await"
    /\ sleeps' = <<>>
    /\ inFlight' = Awaited(inFlight)
    /\ UNCHANGED calls
    /\ \E env \in Environments :
         LET r == ExecuteMultiSend(batches[i + 1], env)
             ok == r.hash # NoHash
             rc == IF ok THEN retryCount ELSE retryCount + 1
             err == IF ok THEN lastError ELSE r.error
         IN  /\ hash' = r.hash
             /\ retryCount' = rc
             /\ lastError' = err
             /\ hashes' = IF ok THEN Append(hashes, r.hash) ELSE hashes
             /\ pc' = RunPc(rc, maxRetries, r.hash)
             /\ caught' = IF RunPc(rc, maxRetries, r.hash) = "logError" THEN Thrown(err) ELSE caught
             /\ attempts' = attempts + 1
             /\ submitted' = r.submitted
             /\ returned' = IF ok THEN returned + 1 ELSE returned
             /\ sentTo' = batches[i + 1]
             /\ thrown' = r.error
             /\ accepted' = IF ok THEN [accepted EXCEPT ![batchNumber] = @ + 1] ELSE accepted
    /\ UNCHANGED <<files, op, recipients, batchSize, batches, i, maxRetries, batchNumber,
                   retryLocals, allLocals, ret, console, prev, fresh, budget>>
    /\ UNCHANGED <<cli, tx>>

\* this.saveTransactionHash(batchNumber, hash, batchRecipients.length) at line
\* 168; an appendFileSync that throws lands in the catch of line 176.
SaveHash ==
    /\ op = "run"
    /\ pc = "saveHash"
    /\ \E wr \in WriteOutcomes :
         /\ faults' = faults + Cost("ok", wr)
         /\ IF wr = "fail"
            THEN /\ caught' = "write failed"
                 /\ pc' = "logError"
                 /\ UNCHANGED <<hashesFile, i, batchNumber, hash, retryCount, lastError, ret, inHand>>
            ELSE /\ hashesFile' = Append(hashesFile, RunHashEntry(batchNumber, hash, Len(batches[i + 1])))
                 /\ NextBatch
         /\ Sleep(wr = "ok" /\ i + 1 < Len(batches), "3000")
    /\ UNCHANGED <<failedFile, op, recipients, batchSize, batches, hashes, maxRetries,
                   retryLocals, allLocals, console, history, handed>>
    /\ UNCHANGED <<cli, tx>>

\* The catch block of line 176: the ERROR line appended to
\* transaction-hashes.txt (line 182).  An append that throws leaves
\* processBatches.
LogError ==
    /\ op = "run"
    /\ pc = "logError"
    /\ \E wr \in WriteOutcomes :
         /\ faults' = faults + Cost("ok", wr)
         /\ IF wr = "fail"
            THEN /\ Fatal
                 /\ UNCHANGED hashesFile
            ELSE /\ hashesFile' = Append(hashesFile, ErrorEntry(batchNumber, Len(batches[i + 1]), caught))
                 /\ pc' = "saveFailed"
                 /\ UNCHANGED ret
    /\ UNCHANGED <<failedFile, op, runLocals, loopLocals, retryLocals, allLocals,
                   console, inHand, history, handed>>
    /\ NoPause
    /\ UNCHANGED <<cli, tx>>

\* this.saveFailedBatch(batchNumber, batchRecipients, error) at line 185: read
\* failed-batches.json (a warning and an empty array when that throws), push
\* the record, write the file back.  A write that throws leaves processBatches.
SaveFailedBatch ==
    /\ op = "run"
    /\ pc = "saveFailed"
    /\ \E rd \in ReadOutcomes(failedFile), wr \in WriteOutcomes :
         /\ CanFault(Cost(rd, wr))
         /\ faults' = faults + Cost(rd, wr)
         /\ console' = IF failedFile.state # "missing" /\ ~Readable(failedFile, rd)
                       THEN console \cup {"warn: could not read failed batches"}
                       ELSE console
         /\ IF wr = "fail"
            THEN /\ Fatal
                 /\ UNCHANGED <<failedFile, i, batchNumber, hash, retryCount, lastError, caught, inHand>>
            ELSE /\ failedFile' = JsonFile(PushFailedBatch(ReadRecords(failedFile, rd),
                                                            batchNumber, batches[i + 1], caught))
                 /\ AfterFailure
         /\ Sleep(wr = "ok" /\ i + 1 < Len(batches), "10000")
    /\ UNCHANGED <<hashesFile, op, recipients, batchSize, batches, hashes, maxRetries,
                   retryLocals, allLocals, history, handed>>
    /\ UNCHANGED <<cli, tx>>

(***************************************************************************)
(* FailedBatchRetrier: retryBatch and retryAllBatches.                     *)
(***************************************************************************)

\* getFailedBatches with a catch block that prints nothing.
ReadMessagesSilent(file, rd) ==
    IF file.state = "missing" THEN {"log: no failed batches file found"} ELSE {}

\* What getFailedBatches prints: a note when the file is missing, an error when
\* it cannot be read or parsed.
ReadMessages(file, rd) ==
    IF file.state = "missing" THEN {"log: no failed batches file found"}
    ELSE IF ~Readable(file, rd) THEN {"error: reading failed batches"}
    ELSE {}

\* retryAllBatches giving up at the first retryBatch that returns false.
RetryReturnsAborts(caller, ok) ==
    /\ pc' = IF caller = "retry" \/ ~ok THEN "done" ELSE "retryReturn"
    /\ ret' = IF caller # "retry" THEN (IF ok THEN "none" ELSE "counts")
              ELSE IF ok THEN "true" ELSE "false"

\* retryBatch returns ok (line 91 or 129): to the command line, which exits
\* with status 0 or 1, or to the loop of retryAllBatches.
RetryReturns(caller, ok) ==
    /\ pc' = IF caller = "retry" THEN "done" ELSE "retryReturn"
    /\ ret' = IF caller # "retry" THEN "none" ELSE IF ok THEN "true" ELSE "false"

\* Where retryBatch stands once the while condition of line 100 has been
\* evaluated: the next executeMultiSend, or return success (line 129).
RetryStep(caller, rc, mr, ok) ==
    IF RetryLoopContinues(rc, mr, ok)
    THEN /\ pc' = "retryExecute"
         /\ ret' = "none"
    ELSE RetryReturns(caller, ok)

\* retryBatch up to its first await (lines 86-100): getFailedBatches, find;
\* batchToRetry = NoBatch stands for undefined, the "not found" return.
\* used counts the file system errors the caller has met in the same step.
RetryBatchEntry(caller, n, mr, used) ==
    \E rd \in ReadOutcomes(failedFile) :
        LET found == FindBatch(ReadRecords(failedFile, rd), n)
        IN  /\ CanFault(used + Cost(rd, "ok"))
            /\ faults' = faults + used + Cost(rd, "ok")
            /\ batchNumber' = n
            /\ maxRetries' = mr
            /\ batchToRetry' = found
            /\ success' = FALSE
            /\ atEntry' = Snapshot
            /\ retryCount' = 0
            /\ hash' = NoHash
            /\ ResetInHand
            /\ console' = console \cup ReadMessages(failedFile, rd)
                            \cup (IF found = NoBatch THEN {"error: batch not found in failed batches"} ELSE {})
            /\ IF found = NoBatch THEN RetryReturns(caller, FALSE) ELSE RetryStep(caller, 0, mr, FALSE)

\* npm start -- --retry --retry-batch=n: retrier.retryBatch(n, maxRetries).
StartRetryBatch(n, mr) ==
    /\ pc = "idle"
    /\ op' = "retry"
    /\ RetryBatchEntry("retry", n, mr, 0)
    /\ UNCHANGED <<files, runLocals, allLocals, accepted, prev, fresh, handed>>
    /\ NoPause
    /\ UNCHANGED <<cli, tx>>

\* The catch block writing the store back without the record.
RetryCatchDropsRecord ==
    /\ failedFile' = JsonFile(FilterBatches(failedFile.records, batchNumber))
    /\ UNCHANGED hashesFile

\* What the catch block of lines 118-126 does to the two files: nothing (it
\* prints the error, counts the attempt and sleeps).
RetryCatch == UNCHANGED files

\* The start of a pass of the while loop of lines 100-105: the call of
\* executeMultiSend on the recipients of the record, on which the flow suspends.
RetrySubmit ==
    /\ op \in {"retry", "retryAll"}
    /\ pc = "retryExecute"
    /\ pc' = "retryAwait"
    /\ sleeps' = <<>>
    /\ inFlight' = inFlight + 1
    /\ calls' = calls + 1
    /\ UNCHANGED <<files, op, runLocals, loopLocals, retryLocals, allLocals,
                   ret, console, inHand, history, budget>>
    /\ UNCHANGED <<cli, tx>>

\* The pass up to the hash: executeMultiSend settles; a throw lands in the
\* catch of line 118, retryCount++, and the catch sleeps when another pass
\* follows (lines 122-125).
RetryExecute ==
    /\ op \in {"retry", "retryAll"}
    /\ pc = "retryAwait"
    /\ inFlight' = Awaited(inFlight)
    /\ UNCHANGED calls
    /\ \E env \in Environments :
         LET r == ExecuteMultiSend(batchToRetry.recipients, env)
             ok == r.hash # NoHash
         IN  /\ hash' = r.hash
             /\ retryCount' = IF ok THEN retryCount ELSE retryCount + 1
             /\ IF ok
                THEN /\ pc' = "retrySave"
                     /\ ret' = ret
                ELSE RetryStep(op, retryCount + 1, maxRetries, success)
             /\ attempts' = attempts + 1
             /\ returned' = IF ok THEN returned + 1 ELSE returned
             /\ sentTo' = batchToRetry.recipients
             /\ UNCHANGED <<submitted, thrown>>
             /\ accepted' = IF ok THEN [accepted EXCEPT ![batchNumber] = @ + 1] ELSE accepted
             /\ IF ok THEN UNCHANGED files ELSE RetryCatch
             /\ sleeps' = IF ~ok /\ retryCount + 1 < maxRetries THEN <<"10000">> ELSE <<>>
    /\ UNCHANGED <<op, runLocals, maxRetries, batchNumber, retryLocals, allLocals,
                   console, prev, fresh, budget>>
    /\ UNCHANGED <<cli, tx>>

\* this.saveTransactionHash(batchNumber, hash, ...) at line 112; an
\* appendFileSync that throws lands in the catch of line 118, retryCount++.
RetrySaveHash ==
    /\ op \in {"retry", "retryAll"}
    /\ pc = "retrySave"
    /\ \E wr \in WriteOutcomes :
         /\ faults' = faults + Cost("ok", wr)
         /\ IF wr = "fail"
            THEN /\ retryCount' = retryCount + 1
                 /\ hash' = NoHash
                 /\ RetryStep(op, retryCount + 1, maxRetries, success)
                 /\ RetryCatch
            ELSE /\ hashesFile' = Append(hashesFile,
                                         RetryHashEntry(batchNumber, hash, Len(batchToRetry.recipients)))
                 /\ pc' = "retryRemove"
                 /\ UNCHANGED <<failedFile, hash, retryCount, ret>>
         /\ Sleep(wr = "fail" /\ retryCount + 1 < maxRetries, "10000")
    /\ UNCHANGED <<op, runLocals, maxRetries, batchNumber, retryLocals,
                   allLocals, console, inHand, history, handed>>
    /\ UNCHANGED <<cli, tx>>

\* this.removeFromFailedBatches(batchNumber) at line 115, then success = true:
\* nothing when the file is missing; otherwise read, filter, write back, and
\* any throw is printed and swallowed (lines 59-61).
RemoveFromFailedBatches ==
    /\ op \in {"retry", "retryAll"}
    /\ pc = "retryRemove"
    /\ \E rd \in ReadOutcomes(failedFile), wr \in WriteOutcomes :
         LET threw == ~Readable(failedFile, rd) \/ wr = "fail"
         IN  /\ CanFault(Cost(rd, wr))
             /\ rd = "fail" => wr = "ok"
             /\ faults' = faults + Cost(rd, wr)
             /\ IF failedFile.state = "missing"
                THEN /\ wr = "ok"
                     /\ UNCHANGED <<failedFile, console>>
                ELSE IF threw
                THEN /\ console' = console \cup {"error: removing batch from failed batches file"}
                     /\ UNCHANGED failedFile
                ELSE /\ failedFile' = JsonFile(FilterBatches(failedFile.records, batchNumber))
                     /\ UNCHANGED console
    /\ success' = TRUE
    /\ hash' = NoHash
    /\ RetryStep(op, retryCount, maxRetries, TRUE)
    /\ UNCHANGED <<hashesFile, op, runLocals, maxRetries, retryCount, batchNumber,
                   batchToRetry, atEntry, allLocals, inHand, history, handed>>
    /\ NoPause
    /\ UNCHANGED <<cli, tx>>

\* retryAllBatches up to its first await (lines 136-149): getFailedBatches,
\* return when it is empty, else retryBatch on the first record.
StartRetryAll(mr) ==
    /\ pc = "idle"
    /\ op' = "retryAll"
    /\ prev' = NoPrev
    /\ successCount' = 0
    /\ failedCount' = 0
    /\ UNCHANGED <<files, runLocals, accepted, fresh, handed>>
    /\ \E rd \in ReadOutcomes(failedFile) :
         LET failedBatches == ReadRecords(failedFile, rd)
         IN  IF failedBatches = <<>>
             THEN /\ faults' = faults + Cost(rd, "ok")
                  /\ console' = ReadMessages(failedFile, rd) \cup {"log: no failed batches to retry"}
                  /\ pending' = <<>>
                  /\ idx' = 0
                  /\ pc' = "done"
                  /\ ret' = "counts"
                  /\ maxRetries' = mr
                  /\ UNCHANGED <<hash, retryCount, batchNumber, retryLocals, inHand>>
             ELSE /\ pending' = failedBatches
                  /\ idx' = 1
                  /\ RetryBatchEntry("retryAll", failedBatches[1].batchNumber, mr, Cost(rd, "ok"))
    /\ NoPause
    /\ UNCHANGED <<cli, tx>>

\* Lines 151-162 of retryAllBatches: count the result of retryBatch, then
\* retryBatch on the next record read at the start, or return the counts.
RetryAllNext ==
    /\ op = "retryAll"
    /\ pc = "retryReturn"
    /\ successCount' = IF success THEN successCount + 1 ELSE successCount
    /\ failedCount' = IF success THEN failedCount ELSE failedCount + 1
    /\ IF idx < Len(pending)
       THEN /\ idx' = idx + 1
            /\ RetryBatchEntry("retryAll", pending[idx + 1].batchNumber, maxRetries, 0)
       ELSE /\ pc' = "done"
            /\ ret' = "counts"
            /\ UNCHANGED <<idx, loopLocals, retryLocals, console, inHand, faults>>
    /\ UNCHANGED <<files, op, runLocals, pending, history, handed>>
    /\ Sleep(idx < Len(pending), "5000")
    /\ UNCHANGED <<cli, tx>>

(***************************************************************************)
(* The process ends.                                                       *)
(***************************************************************************)

\* The entry point has returned and the process exits.
Exit ==
    /\ pc = "done"
    /\ pc' = "idle"
    /\ op' = "none"
    /\ prev' = IF op = "retry" /\ ret = "true"
                THEN [op |-> op, batchNumber |-> batchNumber, ret |-> ret] ELSE NoPrev
    /\ ClearLocals
    /\ UNCHANGED <<files, accepted, fresh, budget>>
    /\ UNCHANGED <<cli, tx>>

\* The process is killed between two of its steps; the files stay as they are.
Crash ==
    /\ pc \notin {"idle", "done"}
    /\ CanFault(1)
    /\ faults' = faults + 1
    /\ pc' = "idle"
    /\ op' = "none"
    /\ prev' = NoPrev
    /\ ClearLocals
    /\ UNCHANGED <<files, accepted, fresh, handed>>
    /\ UNCHANGED <<cli, tx>>

\* The process is killed inside fs.writeFileSync on failed-batches.json
\* (saveFailedBatch line 83, removeFromFailedBatches line 57): the file is left
\* truncated, which JSON.parse rejects.
CrashInWrite ==
    /\ \/ pc = "saveFailed"
       \/ pc = "retryRemove" /\ failedFile.state # "missing"
    /\ CanFault(1)
    /\ faults' = faults + 1
    /\ failedFile' = TornFile
    /\ pc' = "idle"
    /\ op' = "none"
    /\ prev' = NoPrev
    /\ ClearLocals
    /\ UNCHANGED <<hashesFile, accepted, fresh, handed>>
    /\ UNCHANGED <<cli, tx>>

Next ==
    \/ \E rs \in RecipientLists, bs \in BatchSizes, mr \in RetryArgs : StartRun(rs, bs, mr)
    \/ Submit
    \/ Execute
    \/ SaveHash
    \/ LogError
    \/ SaveFailedBatch
    \/ \E n \in BatchNumbers, mr \in RetryArgs : StartRetryBatch(n, mr)
    \/ RetrySubmit
    \/ RetryExecute
    \/ RetrySaveHash
    \/ RemoveFromFailedBatches
    \/ \E mr \in RetryArgs : StartRetryAll(mr)
    \/ RetryAllNext
    \/ Exit
    \/ Crash
    \/ CrashInWrite

Spec == Init /\ [][Next]_vars

\* The runtime goes on: a continuation that is ready runs, a timer set by
\* this.sleep fires, and a call of executeMultiSend settles.
FairSpec == Spec /\ WF_vars(Next)

\* The exit status main leaves once the entry point has ended (pc = "done"):
\* process.exit(1) in the catch of line 116 and on the checks of lines 35, 56
\* and 80; lines 41/44 after retryBatch; line 49 after retryAllBatches; and 0
\* when main returns after processBatches (lines 111-115).
ExitStatus ==
    CASE ret \in {"fatal", "exit1"} -> 1
      [] op = "retry" /\ ret = "true" -> 0
      [] op = "retry" /\ ret = "false" -> 1
      [] op = "retryAll" /\ ret = "counts" -> IF failedCount > 0 THEN 1 ELSE 0
      [] OTHER -> 0

(***************************************************************************)
(* splitIntoBatches alone, on every recipient list over two recipients up  *)
(* to MaxSplitLen and every batch size up to MaxSplitLen + 1.              *)
(***************************************************************************)
RECURSIVE SeqsUpTo(_, _)
SeqsUpTo(S, n) ==
    IF n = 0 THEN { <<>> }
    ELSE LET shorter == SeqsUpTo(S, n - 1)
         IN  shorter \cup { Append(q, x) : q \in { t \in shorter : Len(t) = n - 1 }, x \in S }

SplitInputs == SeqsUpTo({RecipientAt(1), RecipientAt(2)}, MaxSplitLen)
SplitSizes == 1..(MaxSplitLen + 1)

SplitInit ==
    /\ recipients \in SplitInputs
    /\ batchSize \in SplitSizes
    /\ Quiet
    /\ NoCommand

ApplySplit ==
    /\ pc = "idle"
    /\ pc' = "split"
    /\ batches' = SplitIntoBatches(recipients, batchSize)
    /\ UNCHANGED <<files, op, recipients, batchSize, i, hashes, lastError, caught, loopLocals,
                   retryLocals, allLocals, ret, console, inHand, history, budget, pace>>
    /\ UNCHANGED <<cli, tx>>

SplitNext == ApplySplit

SpecSplit == SplitInit /\ [][SplitNext]_vars

(***************************************************************************)
(* main (src/src/index.ts) from the command line to the call of an entry   *)
(* point: parseArgs, the choice of the mode, validateConfig, the balance   *)
(* query and the load of recipients.csv.  What the entry point then does   *)
(* is followed in Spec.                                                    *)
(***************************************************************************)

\* A command line word: "--retry" is [flag |-> "--retry", value |-> Undefined],
\* "--batch-size=0" is [flag |-> "--batch-size", value |-> "0"].
Undefined == "undefined"

\* The result of parseInt: NaN, or Number(n) with Value(Number(n)) = n.
NaN == <<>>
Number(n) == <<n>>
Value(x) == x[1]
Word(f) == [flag |-> f, value |-> Undefined]
Option(f, v) == [flag |-> f, value |-> v]

ArgWords ==
    { Word("--retry"),
      Option("--retry-batch", "2"), Option("--retry-batch", "abc"), Option("--retry-batch", ""),
      Option("--batch-size", "2"), Option("--batch-size", "0"), Option("--batch-size", "-1"),
      Option("--batch-size", "abc"),
      Option("--max-retries", "1") }

ArgLists == SeqsUpTo(ArgWords, MaxArgs)

\* parseInt(s, 10) on the strings the model uses.
ParseInt(s) ==
    CASE s = "0" -> Number(0) [] s = "1" -> Number(1) [] s = "2" -> Number(2)
      [] s = "3" -> Number(3) [] s = "400" -> Number(400) [] s = "-1" -> Number(0 - 1)
      [] OTHER -> NaN

\* args.includes(word): some element is exactly the word.
Includes(args, f) == \E k \in 1..Len(args) : args[k] = Word(f)

\* args.find(arg => arg.startsWith(f + '='))?.split('=')[1]
RECURSIVE OptionValue(_, _)
OptionValue(args, f) ==
    IF args = <<>> THEN Undefined
    ELSE IF Head(args).flag = f /\ Head(args).value # Undefined THEN Head(args).value
    ELSE OptionValue(Tail(args), f)

\* value || fallback: undefined and '' are falsy.
Truthy(v) == v # Undefined /\ v # ""
OrElse(v, fallback) == IF Truthy(v) THEN v ELSE fallback

\* parseArgs, lines 10-19 (retryDelay is left out).
ParseArgs(args) ==
    [retry |-> Includes(args, "--retry"),
     batchSize |-> ParseInt(OrElse(OptionValue(args, "--batch-size"), "400")),
     maxRetries |-> ParseInt(OrElse(OptionValue(args, "--max-retries"), "3")),
     specificBatch |-> OptionValue(args, "--retry-batch")]

engine == <<files, batches, i, hashes, lastError, caught, hash, retryCount, retryLocals,
            allLocals, inHand, history, budget, pace, tx>>

\* recipients.csv: missing, or its valid rows.
NoCsv == [exists |-> FALSE, rows |-> <<>>]
CsvFile(rows) == [exists |-> TRUE, rows |-> rows]

CliInit ==
    /\ recipients = <<>>
    /\ batchSize = 1
    /\ Quiet
    /\ argv \in ArgLists
    /\ identity \in BOOLEAN
    /\ csvFile \in {NoCsv} \cup {CsvFile(rows) : rows \in RecipientLists}
    /\ netCalls = {}

\* main, lines 22-57: parseArgs; with args.retry the retrier is called (or the
\* process exits on a batch number that is not a number); otherwise
\* validateConfig, which fails when neither mnemonic nor private key is set.
MainParse ==
    /\ pc = "idle"
    /\ op = "none"
    /\ LET args == ParseArgs(argv)
       IN  /\ IF args.retry
              THEN IF Truthy(args.specificBatch)
                   THEN IF ParseInt(args.specificBatch) = NaN
                        THEN /\ console' = {"error: invalid batch number"}
                             /\ pc' = "done"
                             /\ ret' = "exit1"
                             /\ UNCHANGED <<op, batchNumber>>
                        ELSE /\ op' = "retry"
                             /\ batchNumber' = Value(ParseInt(args.specificBatch))
                             /\ pc' = "called"
                             /\ UNCHANGED <<ret, console>>
                   ELSE /\ op' = "retryAll"
                        /\ pc' = "called"
                        /\ UNCHANGED <<ret, console, batchNumber>>
              ELSE IF ~identity
                   THEN /\ console' = {"error: either MNEMONIC or PRIVATE_KEY is required"}
                        /\ pc' = "done"
                        /\ ret' = "exit1"
                        /\ UNCHANGED <<op, batchNumber>>
                   ELSE /\ op' = "main"
                        /\ pc' = "balance"
                        /\ UNCHANGED <<ret, console, batchNumber>>
    /\ UNCHANGED <<engine, recipients, batchSize, maxRetries, cli>>

\* main, lines 66-72: the sender address, then walletService.getBalance(),
\* which connects to the RPC node and returns or throws.
MainGetBalance ==
    /\ op = "main"
    /\ pc = "balance"
    /\ netCalls' = netCalls \cup {"getBalance"}
    /\ \E answer \in {"ok", "fail"} :
         IF answer = "ok"
         THEN /\ pc' = "load"
              /\ ret' = ret
         ELSE Fatal
    /\ UNCHANGED <<engine, op, recipients, batchSize, maxRetries, batchNumber, console,
                   argv, identity, csvFile>>

\* main, lines 75-109: getRecipientsFromCsv rejects when the file is missing
\* or holds no valid row (so the check of line 78 never fires); otherwise the
\* BatchProcessor is built with ParseArgs(argv).batchSize and
\* ParseArgs(argv).maxRetries as parsed, and processBatches is called.
MainLoadAndRun ==
    /\ op = "main"
    /\ pc = "load"
    /\ IF ~csvFile.exists \/ csvFile.rows = <<>>
       THEN /\ Fatal
            /\ UNCHANGED <<op, recipients>>
       ELSE /\ recipients' = csvFile.rows
            /\ op' = "run"
            /\ pc' = "called"
            /\ ret' = ret
    /\ UNCHANGED <<engine, batchSize, maxRetries, batchNumber, console, cli>>

CliNext ==
    \/ MainParse
    \/ MainGetBalance
    \/ MainLoadAndRun

SpecCli == CliInit /\ [][CliNext]_vars

(***************************************************************************)
(* createMultiSendTx alone, on every list up to MaxTxLen of recipients     *)
(* over two addresses and four amounts, one of which BigInt rejects.       *)
(***************************************************************************)
TxAmounts == {"1", "9", "01", "1.5"}
TxRecipients == { [address |-> a, amount |-> m] : a \in {"zig1a", "zig1b"}, m \in TxAmounts }
TxInputs == SeqsUpTo(TxRecipients, MaxTxLen)

TxInit ==
    /\ recipients \in TxInputs
    /\ batchSize = 1
    /\ Quiet
    /\ NoCommand

ApplyCreateMultiSendTx ==
    /\ pc = "idle"
    /\ pc' = "built"
    /\ tx' = CreateMultiSendTx(recipients, SenderAddress, Denom)
    /\ UNCHANGED <<files, op, runLocals, loopLocals, retryLocals, allLocals,
                   ret, console, inHand, history, budget, cli, pace>>

TxNext == ApplyCreateMultiSendTx

SpecTx == TxInit /\ [][TxNext]_vars

(***************************************************************************)
(* Claims.                                                                 *)
(***************************************************************************)
Last(q) == q[Len(q)]

\* C1: for every recipient list and every batch size >= 1 the batches of
\* splitIntoBatches, concatenated in order, are the list itself; every batch
\* holds at least 1 and at most batchSize recipients; the empty list gives
\* no batch.
C1_SplitPartitions ==
    pc = "split" =>
        /\ Concat(batches) = recipients
        /\ \A k \in 1..Len(batches) : Len(batches[k]) >= 1 /\ Len(batches[k]) <= batchSize
        /\ (recipients = <<>> => batches = <<>>)

C1_Witness ==
    /\ pc = "split"
    /\ Len(recipients) = 3
    /\ batchSize = 2
    /\ Len(batches) = 2
    /\ Len(batches[2]) = 1

\* No executeMultiSend call of the run in progress has returned a hash.
AllFailedSoFar == op = "run" /\ accepted = NoneAccepted

\* C2: in a run of processBatches in which every executeMultiSend call fails,
\* no batch gets more than maxRetries + 1 calls, the run leaves a batch only
\* by the step that writes its record to failed-batches.json, and that step
\* comes when exactly maxRetries + 1 calls have been made for the batch.
C2_Step ==
    (AllFailedSoFar /\ op' = "run" /\ accepted' = NoneAccepted /\ ret' # "fatal") =>
        /\ attempts' <= maxRetries' + 1
        /\ (failedFile' # failedFile => pc = "saveFailed" /\ attempts = maxRetries + 1)
        /\ ((i' # i \/ (pc # "done" /\ pc' = "done")) =>
               /\ pc = "saveFailed"
               /\ attempts = maxRetries + 1
               /\ failedFile'.state = "ok"
               /\ Last(failedFile'.records).batchNumber = batchNumber)

C2_RetryBound == [][C2_Step]_vars

C2_Witness ==
    /\ AllFailedSoFar
    /\ pc = "done"
    /\ ret = "hashes"
    /\ Len(batches) = 2
    /\ maxRetries = 1
    /\ attempts = 2
    /\ Len(failedFile.records) = 2

\* C3: a run of processBatches that started on an empty failure store,
\* followed by any retryBatch and retryAllBatches calls, with process kills in
\* between: no batch number gets a hash from the chain twice.
C3_NoResend == fresh => \A n \in BatchNumbers : accepted[n] <= 1

\* C4: when processBatches has returned, no batch number with a settlement
\* line of this run in transaction-hashes.txt has a record left in
\* failed-batches.json.
C4_SuccessClearsRecord ==
    (op = "run" /\ pc = "done" /\ ret = "hashes") =>
        \A k \in 1..Len(hashesFile) :
            hashesFile[k].kind = "hash" =>
                FindBatch(failedFile.records, hashesFile[k].batchNumber) = NoBatch

\* C5: processBatches starts with batch 1, goes from a batch only to the next
\* one and only after an executeMultiSend call for it, returns only after the
\* last batch, sends a batch that used up its calls to the catch block and
\* not out of the run, and is left early only by a file system error in the
\* catch block.
C5_Step ==
    /\ (op = "none" /\ op' = "run" /\ ret' # "fatal" /\ batches' # <<>>) =>
          i' = 0 /\ batchNumber' = 1 /\ pc' = "execute"
    /\ (op = "run" /\ op' = "run") =>
          /\ (i' # i => i' = i + 1 /\ batchNumber' = i + 2 /\ attempts >= 1 /\ pc' = "execute")
          /\ ((pc # "done" /\ pc' = "done" /\ ret' = "hashes") =>
                 i = Len(batches) - 1 /\ attempts >= 1)
          /\ ((pc = "await" /\ pc' # "execute" /\ hash' = NoHash) => pc' = "logError")
          /\ ((pc # "done" /\ pc' = "done" /\ ret' = "fatal") =>
                 pc \in {"logError", "saveFailed"} /\ faults' > faults)

C5_RunGoesOn == [][C5_Step]_vars

C5_Witness ==
    /\ op = "run"
    /\ pc = "done"
    /\ ret = "hashes"
    /\ Len(batches) = 2
    /\ Len(hashesFile) = 2
    /\ hashesFile[1].kind = "error"
    /\ hashesFile[2].kind = "hash"
    /\ hashes = <<TxHash(batches[2])>>

\* C6: the record saveFailedBatch writes for a batch none of whose
\* executeMultiSend calls returned a hash holds the batch number, the
\* recipients of that batch as they stand in the list handed to
\* processBatches, and the message of the error the last call threw.
C6_Step ==
    (op = "run" /\ pc = "saveFailed" /\ returned = 0 /\ op' = "run" /\ ret' # "fatal") =>
        /\ failedFile'.state = "ok"
        /\ Last(failedFile'.records) =
              [batchNumber |-> i + 1,
               recipients |-> SubSeq(recipients, i * batchSize + 1,
                                     Min((i + 1) * batchSize, Len(recipients))),
               error |-> thrown]

C6_FailureRecord == [][C6_Step]_vars

C6_Witness ==
    /\ op = "run"
    /\ pc = "done"
    /\ ret = "hashes"
    /\ returned = 0
    /\ attempts = 2
    /\ Len(batches) = 2
    /\ failedFile.state = "ok"
    /\ Last(failedFile.records) = FailedBatch(2, <<RecipientAt(2)>>, "broadcast failed")

\* failed-batches.json holds a record with batch number n.
HoldsRecord(n) == \E k \in 1..Len(failedFile.records) : failedFile.records[k].batchNumber = n

\* transaction-hashes.txt holds a settlement line for batch number n.
HoldsHash(n) ==
    \E k \in 1..Len(hashesFile) : hashesFile[k].kind = "hash" /\ hashesFile[k].batchNumber = n

\* C7: retryBatch(n) on a failed-batches.json without a record numbered n,
\* called from the command line or from retryAllBatches, reports "not found",
\* returns false, calls executeMultiSend not once and leaves both files as
\* they are.
C7_Step ==
    /\ (op = "none" /\ op' = "retry" /\ ~HoldsRecord(batchNumber')) =>
          /\ batchToRetry' = NoBatch
          /\ pc' = "done"
          /\ ret' = "false"
          /\ "error: batch not found in failed batches" \in console'
          /\ attempts' = 0
          /\ accepted' = accepted
          /\ files' = files
    /\ (op = "retryAll" /\ pc = "retryReturn" /\ idx' = idx + 1
            /\ ~HoldsRecord(pending[idx + 1].batchNumber)) =>
          /\ batchToRetry' = NoBatch
          /\ pc' = "retryReturn"
          /\ ~success'
          /\ "error: batch not found in failed batches" \in console'
          /\ attempts' = 0
          /\ accepted' = accepted
          /\ files' = files

C7_NotFound == [][C7_Step]_vars

C7_Witness ==
    /\ op = "retry"
    /\ pc = "done"
    /\ ret = "false"
    /\ batchToRetry = NoBatch
    /\ failedFile.records # <<>>
    /\ ~HoldsRecord(batchNumber)
    /\ attempts = 0

\* C8: in a retryBatch(n) that directly follows a retryBatch(n) that returned
\* true, no record is found and executeMultiSend is not called.
C8_SecondRetryNotFound ==
    (op = "retry" /\ prev.ret = "true" /\ prev.batchNumber = batchNumber) =>
        batchToRetry = NoBatch /\ attempts = 0

\* C9: once retryBatch(n) has returned true, and until the next operation
\* starts, n has not both a settlement line in transaction-hashes.txt and a
\* record in failed-batches.json.
C9_NotSettledAndFailed ==
    /\ (op = "retry" /\ pc = "done" /\ ret = "true") =>
          ~(HoldsHash(batchNumber) /\ HoldsRecord(batchNumber))
    /\ (op = "retryAll" /\ pc = "retryReturn" /\ success) =>
          ~(HoldsHash(batchNumber) /\ HoldsRecord(batchNumber))
    /\ (op = "none" /\ prev.ret = "true") =>
          ~(HoldsHash(prev.batchNumber) /\ HoldsRecord(prev.batchNumber))

\* C10: a retryBatch(n, maxRetries) that found its record has, on return,
\* called executeMultiSend at most maxRetries + 1 times, exactly
\* maxRetries + 1 times when no call returned a hash, each time on the
\* recipients of the record.
C10_SameBoundAsRun ==
    (op = "retry" /\ pc = "done" /\ batchToRetry # NoBatch) =>
        /\ attempts <= maxRetries + 1
        /\ (returned = 0 => attempts = maxRetries + 1)
        /\ (attempts > 0 => sentTo = batchToRetry.recipients)

\* C11: once a write of transaction-hashes.txt has failed after
\* executeMultiSend returned a hash, the operation neither records the batch
\* as failed (processBatches stays out of its catch block) nor calls
\* executeMultiSend for it again (retryBatch).
C11_WriteFailureIsFatal ==
    /\ (op = "run" /\ returned > 0) => pc \notin {"logError", "saveFailed"}
    /\ (op \in {"retry", "retryAll"} /\ returned > 0) => pc \notin {"retryExecute", "retryAwait"}

\* C12: when the process of a processBatches run ends, its exit status is 0
\* exactly when every batch of the run has a settlement line and none has an
\* error line in transaction-hashes.txt.
C12_ExitStatusTellsFailure ==
    (op = "run" /\ pc = "done") =>
        (ExitStatus = 0 <=>
            /\ ret = "hashes"
            /\ Len(hashesFile) = Len(batches)
            /\ \A k \in 1..Len(hashesFile) : hashesFile[k].kind = "hash")

\* C13: a command line that holds --retry-batch=<n> with n a number calls
\* retryBatch(n) and nothing else: main does not go on to validateConfig, the
\* balance query and processBatches.
C13_RetryBatchOnly ==
    (pc # "idle" /\ Truthy(OptionValue(argv, "--retry-batch"))
        /\ ParseInt(OptionValue(argv, "--retry-batch")) # NaN) =>
            /\ op = "retry"
            /\ batchNumber = Value(ParseInt(OptionValue(argv, "--retry-batch")))
            /\ pc = "called"

\* The batch size main hands to new BatchProcessor is not a number >= 1.
InvalidBatchSize ==
    LET bs == ParseArgs(argv).batchSize IN IF bs = NaN THEN TRUE ELSE Value(bs) < 1

\* C14: in a run (no --retry) without mnemonic and private key, with a
\* recipients.csv without rows, or with a batch size that is 0, negative or
\* not a number, main makes no network call, does not call processBatches,
\* and the process ends with status 1.
C14_ConfigErrorBeforeNetwork ==
    (~ParseArgs(argv).retry /\ (~identity \/ (csvFile.exists /\ csvFile.rows = <<>>) \/ InvalidBatchSize)) =>
        /\ netCalls = {}
        /\ op # "run"
        /\ (pc = "done" => ExitStatus = 1)

\* The recipients the next executeMultiSend call of the process is made on.
NextRecipients == IF op = "run" THEN batches[i + 1] ELSE batchToRetry.recipients

\* C15: for every executeMultiSend call processBatches or retryBatch makes,
\* a balance below the sum of the amounts of the batch gives the
\* "Insufficient balance" error, no hash, and no call of sendMultiSendTx; in
\* processBatches a call that threw that error did not invoke sendMultiSendTx,
\* and a call that invoked it was on a batch the largest balance covers.
C15_Step ==
    (pc \in {"await", "retryAwait"} /\ attempts' = attempts + 1) =>
        /\ \A env \in Environments :
             env.balance < TotalAmount(NextRecipients) =>
                 LET r == ExecuteMultiSend(NextRecipients, env)
                 IN  r.hash = NoHash /\ r.error = "Insufficient balance" /\ ~r.submitted
        /\ (op = "run" /\ thrown' = "Insufficient balance") => ~submitted' /\ hash' = NoHash
        /\ (op = "run" /\ submitted') => TotalAmount(sentTo') <= MaxBalance

C15_BalanceCheckFirst == [][C15_Step]_vars

C15_Witness ==
    /\ op = "run"
    /\ attempts >= 1
    /\ thrown = "Insufficient balance"
    /\ ~submitted
    /\ hash = NoHash
    /\ TotalAmount(sentTo) > MaxBalance

\* The same records up to the error text: same numbers and recipients in the
\* same order.
SameRecords(f, g) ==
    /\ f.state = g.state
    /\ Len(f.records) = Len(g.records)
    /\ \A k \in 1..Len(f.records) :
         /\ f.records[k].batchNumber = g.records[k].batchNumber
         /\ f.records[k].recipients = g.records[k].recipients

\* C16: when retryBatch(n) has found its record and returns false, to the
\* command line or to retryAllBatches, failed-batches.json holds the records
\* the call found, up to their error text, and transaction-hashes.txt is as
\* the call found it.
C16_ExhaustedRetryKeepsFiles ==
    (\/ op = "retry" /\ pc = "done" /\ ret = "false"
     \/ op = "retryAll" /\ pc = "retryReturn" /\ ~success) =>
        (batchToRetry # NoBatch =>
            /\ SameRecords(failedFile, atEntry.failedFile)
            /\ hashesFile = atEntry.hashesFile)

C16_Witness ==
    /\ op = "retry"
    /\ pc = "done"
    /\ ret = "false"
    /\ batchToRetry # NoBatch
    /\ maxRetries = 1
    /\ attempts = 1
    /\ returned = 0
    /\ Len(failedFile.records) = 2
    /\ hashesFile # <<>>

\* C17: when retryBatch(n) has found its record and returns true, to the
\* command line or to retryAllBatches, transaction-hashes.txt is the log the
\* call found plus one line for batch n marked (RETRY), and
\* failed-batches.json holds no record numbered n.
C17_RetrySuccessSettles ==
    (\/ op = "retry" /\ pc = "done" /\ ret = "true"
     \/ op = "retryAll" /\ pc = "retryReturn" /\ success) =>
        /\ hashesFile = Append(atEntry.hashesFile,
                               RetryHashEntry(batchNumber, TxHash(batchToRetry.recipients),
                                              Len(batchToRetry.recipients)))
        /\ ~HoldsRecord(batchNumber)

C18_Step ==
    (op = "run" /\ pc = "saveHash" /\ attempts > 1 /\ hashesFile' # hashesFile) =>
        /\ returned = 1
        /\ Last(hashes) = TxHash(batches[i + 1])
        /\ hashes' = hashes
        /\ hashesFile' = Append(hashesFile,
                                [kind |-> "hash", batchNumber |-> i + 1,
                                 recipientCount |-> Len(batches[i + 1]),
                                 hash |-> TxHash(batches[i + 1]),
                                 error |-> NoError, retry |-> FALSE])
        /\ ~HoldsHash(i + 1)
        /\ failedFile' = failedFile
        /\ (i' = i + 1 \/ pc' = "done")

C19_Step ==
    /\ (op = "none" /\ op' = "run" /\ ret' # "fatal") =>
          hashesFile' = <<>> /\ failedFile' = failedFile
    /\ (op = "run" /\ pc = "saveFailed" /\ op' = "run" /\ ret' # "fatal") =>
          /\ failedFile'.state = "ok"
          /\ Len(failedFile'.records) = Len(failedFile.records) + 1
          /\ SubSeq(failedFile'.records, 1, Len(failedFile.records)) = failedFile.records

C19_StorePersists == [][C19_Step]_vars

\* failed-batches.json exists and the read of this step fails: the file is
\* truncated, or readFileSync throws (the one file system error a step that
\* does not end in a fatal error can have met).
ReadFails == failedFile.state = "corrupt" \/ faults' > faults

\* C20: a retryBatch, a retryAllBatches or a saveFailedBatch whose read of
\* failed-batches.json fails, because the file cannot be parsed or because
\* readFileSync throws, prints a warning, goes on as with an empty store
\* (batch not found, nothing to retry, the new record alone written back) and
\* does not end the process with an error.
C20_Step ==
    /\ (op = "none" /\ op' = "retry" /\ ReadFails) =>
          /\ "error: reading failed batches" \in console'
          /\ batchToRetry' = NoBatch
          /\ pc' = "done"
          /\ ret' = "false"
          /\ files' = files
    /\ (op = "none" /\ op' = "retryAll" /\ ReadFails) =>
          /\ "error: reading failed batches" \in console'
          /\ batchToRetry' = NoBatch
          /\ \/ pending' = <<>> /\ pc' = "done" /\ ret' = "counts"
                /\ successCount' = 0 /\ failedCount' = 0
             \/ pc' = "retryReturn" /\ ~success'
          /\ files' = files
    /\ (op = "retryAll" /\ pc = "retryReturn" /\ idx' = idx + 1 /\ ReadFails) =>
          /\ "error: reading failed batches" \in console'
          /\ batchToRetry' = NoBatch
          /\ pc' = "retryReturn"
          /\ ~success'
          /\ files' = files
    /\ (op = "run" /\ pc = "saveFailed" /\ op' = "run" /\ ret' # "fatal" /\ ReadFails) =>
          /\ "warn: could not read failed batches" \in console'
          /\ failedFile' = JsonFile(<<FailedBatch(batchNumber, batches[i + 1], caught)>>)
    /\ (op = "run" /\ pc = "saveFailed" /\ op' = "run" /\ failedFile.state = "corrupt"
            /\ faults' = faults) =>
          ret' # "fatal"

C20_UnreadableStoreIsNotFatal == [][C20_Step]_vars

C20_Witness ==
    /\ op = "retry"
    /\ pc = "done"
    /\ ret = "false"
    /\ failedFile.state = "corrupt"
    /\ batchToRetry = NoBatch
    /\ "error: reading failed batches" \in console

\* C21: in processBatches a settlement line for a batch is appended only
\* after an executeMultiSend call for it returned a hash, and
\* failed-batches.json is written only for a batch all of whose
\* maxRetries + 1 calls were made and none of which returned a hash.
C21_Step ==
    (op = "run" /\ op' = "run") =>
        /\ (hashesFile' # hashesFile /\ Last(hashesFile').kind = "hash") =>
              /\ returned >= 1
              /\ Last(hashesFile').batchNumber = batchNumber
              /\ Last(hashesFile').hash = TxHash(sentTo)
        /\ (failedFile' # failedFile) =>
              /\ returned = 0
              /\ attempts = maxRetries + 1
              /\ Last(failedFile'.records).batchNumber = batchNumber

C21_RecordedAfterOutcome == [][C21_Step]_vars

\* C22: retryAllBatches calls retryBatch for the records it read at the
\* start, in their order, one after the other, whatever the call before
\* returned (not found included); the records read stay as read; and when it
\* returns, every record has had its call and success + failed is the number
\* of records read.
C22_Step ==
    /\ (op = "none" /\ op' = "retryAll") =>
          /\ pending' = failedFile.records \/ pending' = <<>>
          /\ pending' # <<>> => idx' = 1 /\ batchNumber' = pending'[1].batchNumber
    /\ (op = "retryAll" /\ op' = "retryAll") =>
          /\ pending' = pending
          /\ (idx' # idx =>
                /\ pc = "retryReturn"
                /\ idx' = idx + 1
                /\ batchNumber' = pending[idx + 1].batchNumber
                /\ successCount' + failedCount' = idx)
          /\ ((pc = "retryReturn" /\ idx < Len(pending)) => idx' = idx + 1)
          /\ ((pc # "done" /\ pc' = "done") =>
                /\ ret' = "counts"
                /\ idx = Len(pending)
                /\ successCount' + failedCount' = Len(pending))

C22_RetryAllInOrder == [][C22_Step]_vars

C22_Witness ==
    /\ op = "retryAll"
    /\ pc = "done"
    /\ ret = "counts"
    /\ Len(pending) = 2
    /\ successCount = 1
    /\ failedCount = 1
    /\ batchToRetry = NoBatch
    /\ "error: batch not found in failed batches" \in console

\* C23: every record a retryBatch takes out of failed-batches.json holds the
\* recipients of an executeMultiSend call of that retryBatch that returned a
\* hash.
C23_Step ==
    (op \in {"retry", "retryAll"} /\ op' = op /\ failedFile' # failedFile) =>
        \A k \in 1..Len(failedFile.records) :
            (\A j \in 1..Len(failedFile'.records) :
                 failedFile'.records[j] # failedFile.records[k]) =>
                /\ returned >= 1
                /\ failedFile.records[k].recipients = sentTo

C23_RemovedOnlyIfSent == [][C23_Step]_vars

\* The settlement lines and the records of batch number n.
HashLines(n) ==
    { k \in 1..Len(hashesFile) : hashesFile[k].kind = "hash" /\ hashesFile[k].batchNumber = n }
RecordsOf(n) == { k \in 1..Len(failedFile.records) : failedFile.records[k].batchNumber = n }

\* The hashes of the batches from number n on that have a settlement line.
RECURSIVE SettledHashesFrom(_)
SettledHashesFrom(n) ==
    IF n > Len(batches) THEN <<>>
    ELSE (IF HashLines(n) # {} THEN <<TxHash(batches[n])>> ELSE <<>>) \o SettledHashesFrom(n + 1)

\* No append to transaction-hashes.txt failed in this run: no error line says so.
AppendsSucceeded ==
    \A k \in 1..Len(hashesFile) : hashesFile[k].error # "write failed"

\* C24: when processBatches, started on an empty failed-batches.json, has
\* returned and no write failed, every batch has either one settlement line
\* and no record or no settlement line and one record, the hashes returned
\* are those of the batches with a settlement line in batch order, and hashes
\* returned plus records is the number of batches.
C24_OneOutcomePerBatch ==
    (op = "run" /\ pc = "done" /\ ret = "hashes" /\ fresh /\ AppendsSucceeded) =>
        /\ \A n \in 1..Len(batches) :
             \/ Cardinality(HashLines(n)) = 1 /\ RecordsOf(n) = {}
             \/ HashLines(n) = {} /\ Cardinality(RecordsOf(n)) = 1
        /\ hashes = SettledHashesFrom(1)
        /\ Len(hashes) + Len(failedFile.records) = Len(batches)

\* C25: in processBatches the step that calls executeMultiSend sleeps for
\* retryDelayMs, and for nothing else, right before the call exactly when the
\* batch in hand has had an attempt already; no other step of processBatches
\* sleeps for retryDelayMs.
C25_Step ==
    (op = "run") =>
        IF calls' = calls + 1
        THEN sleeps' = (IF attempts >= 1 THEN <<"retryDelayMs">> ELSE <<>>)
        ELSE \A k \in 1..Len(sleeps') : sleeps'[k] # "retryDelayMs"

C25_RetryDelayBetweenAttempts == [][C25_Step]_vars

C25_Witness ==
    op = "run" /\ pc = "await" /\ attempts = 1 /\ sleeps = <<"retryDelayMs">>

\* C26: at most one executeMultiSend call is pending at any time, and a step
\* that changes transaction-hashes.txt or failed-batches.json starts and ends
\* with none pending.
C26_Step ==
    /\ inFlight' \in {0, 1}
    /\ (files' # files) => (inFlight = 0 /\ inFlight' = 0)

C26_OneAtATime == [][C26_Step]_vars

C26_Witness ==
    op = "run" /\ pc = "await" /\ i = 1 /\ inFlight = 1 /\ Len(hashesFile) = 1

\* An entry point is under way.
Running == pc \notin {"idle", "done"}

\* C27: processBatches never makes more than (number of batches) x
\* (maxRetries + 1) calls of executeMultiSend, retryAllBatches never more than
\* (number of records read) x maxRetries and retryBatch never more than
\* maxRetries, and an entry point that is under way eventually is not.
C27_Bound ==
    /\ op = "run" => calls <= Len(batches) * (maxRetries + 1)
    /\ op = "retryAll" => calls <= Len(pending) * maxRetries
    /\ op = "retry" => calls <= maxRetries

C27_Terminates == []C27_Bound /\ [](Running => <>(~Running))

C27_Witness ==
    op = "run" /\ pc = "done" /\ ret = "hashes" /\ Len(batches) = 2 /\ maxRetries = 1 /\ calls = 4

\* The sum of the amounts of a list of outputs, as integers.
RECURSIVE OutputTotal(_)
OutputTotal(outs) ==
    IF outs = <<>> THEN 0 ELSE BigInt(Head(outs).coins[1].amount) + OutputTotal(Tail(outs))

\* C28: a MultiSendTx that createMultiSendTx returns has one input, from the
\* sender, with one coin whose amount is the decimal string of the integer
\* sum of the output amounts, and as many outputs as recipients, the k-th
\* with one coin and the address and the amount of the k-th recipient.
C28_TxMatchesRecipients ==
    (pc = "built" /\ ~tx.threw) =>
        /\ Len(tx.inputs) = 1
        /\ tx.inputs[1].address = SenderAddress
        /\ Len(tx.inputs[1].coins) = 1
        /\ tx.inputs[1].coins[1].amount = BigIntToString(OutputTotal(tx.outputs))
        /\ Len(tx.outputs) = Len(recipients)
        /\ \A k \in 1..Len(recipients) :
             /\ tx.outputs[k].address = recipients[k].address
             /\ Len(tx.outputs[k].coins) = 1
             /\ tx.outputs[k].coins[1].amount = recipients[k].amount

C28_Witness ==
    /\ pc = "built"
    /\ ~tx.threw
    /\ Len(recipients) = 3
    /\ recipients[2].amount = "01"
    /\ tx.inputs[1].coins[1].amount = "19"

====
